---- MODULE Spec2Model ----
(***************************************************************************)
(* Model of pkg/plugin/cmd.go of kubectl-debug: the cobra command handler  *)
(* built by NewDebugCmd and the methods Complete, Validate, Run,           *)
(* getContainerIdByName, remoteExecute and setupTTY of DebugOptions.       *)
(*                                                                         *)
(* One behaviour is one invocation of the command.  Text values that pass  *)
(* through an encoder (image, container id, command tokens, host address)  *)
(* are sequences of one-character strings so that json.Marshal and         *)
(* url.Values.Encode are computed character by character.                  *)
(*                                                                         *)
(* The model follows the libraries the file calls at their call sites:     *)
(* term.TTY (IsTerminalIn, MonitorSize, Safe) of the kubectl term package, *)
(* rest.Request.Name of client-go (an empty resource name is rejected      *)
(* before any request is sent), encoding/json and net/url.                 *)
(***************************************************************************)
EXTENDS Integers, Sequences, FiniteSets, TLC

(***************************************************************************)
(* Bounds of the model.                                                    *)
(***************************************************************************)
\* most command tokens given after the pod name on the command line
MaxCmd == 2

(***************************************************************************)
(* Program constants (cmd.go:44-46).                                       *)
(***************************************************************************)
defaultImage ==
    <<"n","i","c","o","l","a","k","a","/","n","e","t","s","h","o","o","t",
      ":","l","a","t","e","s","t">>
defaultAgentPort == 10027
\* the default command of Complete, []string{"bash"} (cmd.go:180)
defaultCommand == << <<"b","a","s","h">> >>

(***************************************************************************)
(* Error values.  NoErr is Go's nil error.                                 *)
(***************************************************************************)
NoErr == "nil"
ErrPodNotSpecified == "error pod not specified"
ErrNamespace == "namespace error"
ErrClientConfig == "client config error"
ErrNewForConfig == "NewForConfig error"
ErrPodNameRequired == "pod name must be specified"
ErrCommandRequired == "you must specify at least one command for the container"
ErrPodGet == "pod get error"
ErrPodCompleted == "cannot debug in a completed pod"
ErrContainerNotReady == "container id not ready"
ErrContainerNotFound == "cannot find specified container"
ErrUrlParse == "url parse error"
ErrMakeRaw == "make raw error"
ErrNewExecutor == "NewSPDYExecutor error"
ErrStream == "stream error"

(***************************************************************************)
(* Input domains.                                                          *)
(***************************************************************************)
\* command tokens a user can type; the second holds a space and a quote
Tokens == { <<"l","s">>, <<"a"," ","\"">> }
\* pod names given as the first argument (<<>> is an empty argument)
PodNames == { <<>>, <<"p","o","d">> }
\* values of the --image flag ("" when the flag is absent)
ImageFlags == { <<>>, <<"i","m","g">> }
\* values of the --port flag (0 when the flag is absent)
PortFlags == {0, 8080}
\* values of the --container flag ("" when the flag is absent)
ContainerFlags == {"", "web", "db"}
\* names of the containers a pod declares
ContainerNames == {"web", "sidecar"}
\* pod phases of corev1.PodPhase
Phases == {"Pending", "Running", "Succeeded", "Failed", "Unknown"}
\* host addresses in the pod status; the last one is not a valid URL host
HostGood == <<"h","1">>
HostBad == <<"h"," ","1">>
HostIPs == {HostGood, HostBad}
\* the debug config files LoadFile can return
Configs ==
    { [Command |-> <<>>, Image |-> <<>>, AgentPort |-> 0],
      [Command |-> << <<"s","h">> >>, Image |-> <<>>, AgentPort |-> 9000],
      [Command |-> <<>>, Image |-> <<"c","f","g">>, AgentPort |-> -1] }
\* the zero value Config{} substituted when LoadFile fails (cmd.go:171)
EmptyConfig == [Command |-> <<>>, Image |-> <<>>, AgentPort |-> 0]

\* sequences over S of length at most n
RECURSIVE SeqsUpTo(_, _)
SeqsUpTo(S, n) ==
    IF n = 0 THEN { <<>> }
    ELSE LET shorter == SeqsUpTo(S, n - 1)
         IN shorter \cup { Append(s, x) : s \in shorter, x \in S }

\* the elements of a sequence
Range(s) == { s[i] : i \in 1..Len(s) }

\* sequences over S without a repeated element
UniqueSeqs(S) == { s \in SeqsUpTo(S, Cardinality(S)) : Cardinality(Range(s)) = Len(s) }

\* argument lists cobra hands to the handler: none, or a pod name and tokens
ArgLists == { <<>> } \cup { <<p>> \o c : p \in PodNames, c \in SeqsUpTo(Tokens, MaxCmd) }

\* more command tokens: shell metacharacters and a backslash, and a token
\* with a byte that is not valid UTF-8
WideTokens == Tokens \cup { <<";", "&", "\\", "<">>, <<"l", "xFF">> }
WideArgLists ==
    { <<>> } \cup { <<p>> \o c : p \in PodNames, c \in SeqsUpTo(WideTokens, MaxCmd) }

\* the runtime identifier the status of container n reports, <runtime>://<id>
ContainerIDOf(n) == <<"d",":","/","/">> \o (IF n = "web" THEN <<"1">> ELSE <<"2">>)

\* the status lists of a pod that declares the containers cs: a status for
\* some of the declared containers, each ready or not, names unique
StatusLists(cs) ==
    UNION { { [i \in 1..Len(ns) |->
                 [Name |-> ns[i], Ready |-> rs[i], ContainerID |-> ContainerIDOf(ns[i])]] :
              rs \in { r \in SeqsUpTo(BOOLEAN, Len(cs)) : Len(r) = Len(ns) } } :
            ns \in UniqueSeqs(Range(cs)) }

\* the pods the cluster can return for a Get
Pods ==
    UNION { { [Phase |-> ph, HostIP |-> h, Containers |-> cs, ContainerStatuses |-> st] :
                ph \in Phases, h \in HostIPs, st \in StatusLists(cs) } :
            cs \in UniqueSeqs(ContainerNames) }
\* a few of the pods: one that can be debugged, a completed one, one whose
\* host address does not parse, one that declares no container
FewPods ==
    LET ready(n) == [Name |-> n, Ready |-> TRUE, ContainerID |-> ContainerIDOf(n)]
    IN { [Phase |-> "Running", HostIP |-> HostGood, Containers |-> <<"web", "sidecar">>,
          ContainerStatuses |-> <<ready("web"), ready("sidecar")>>],
         [Phase |-> "Failed", HostIP |-> HostGood, Containers |-> <<"web">>,
          ContainerStatuses |-> <<ready("web")>>],
         [Phase |-> "Running", HostIP |-> HostBad, Containers |-> <<"web">>,
          ContainerStatuses |-> <<ready("web")>>],
         [Phase |-> "Pending", HostIP |-> HostGood, Containers |-> <<>>,
          ContainerStatuses |-> <<>>] }
\* the value of the pod variable before the lookup has returned a pod
NoPod == [Phase |-> "", HostIP |-> <<>>, Containers |-> <<>>, ContainerStatuses |-> <<>>]

(***************************************************************************)
(* Encoders.                                                               *)
(***************************************************************************)
\* concatenation of a sequence of sequences
RECURSIVE Flatten(_)
Flatten(ss) == IF ss = <<>> THEN <<>> ELSE Head(ss) \o Flatten(Tail(ss))

\* A byte of a Go string that is not valid UTF-8 is the character "xFF";
\* the Unicode replacement character U+FFFD is the character "uFFFD".

\* encoding/json: one character of a string literal.  The quote and the
\* backslash get a backslash, the ampersand and the angle brackets are
\* written \u0026, \u003c, \u003e, a byte that is not valid UTF-8 is
\* written \ufffd, the rest is copied.
JSONChar(c) ==
    CASE c = "\"" -> <<"\\", "\"">>
      [] c = "\\" -> <<"\\", "\\">>
      [] c = "&" -> <<"\\", "u", "0", "0", "2", "6">>
      [] c = "<" -> <<"\\", "u", "0", "0", "3", "c">>
      [] c = ">" -> <<"\\", "u", "0", "0", "3", "e">>
      [] c = "xFF" -> <<"\\", "u", "f", "f", "f", "d">>
      [] OTHER -> <<c>>

\* encoding/json: a Go string as a JSON string literal
JSONString(str) == <<"\"">> \o Flatten([i \in 1..Len(str) |-> JSONChar(str[i])]) \o <<"\"">>

\* encoding/json: json.Marshal of a non-nil []string (cmd.go:278)
JSONMarshal(strs) ==
    <<"[">>
    \o Flatten([i \in 1..Len(strs) |->
                  (IF i > 1 THEN <<",">> ELSE <<>>) \o JSONString(strs[i])])
    \o <<"]">>

\* encoding/json: the character a \uXXXX escape stands for
UnicodeOf(hex) ==
    CASE hex = <<"0", "0", "2", "6">> -> "&"
      [] hex = <<"0", "0", "3", "c">> -> "<"
      [] hex = <<"0", "0", "3", "e">> -> ">"
      [] hex = <<"f", "f", "f", "d">> -> "uFFFD"

\* encoding/json: the decoder over the text s from position i; inString
\* tells whether a string literal is open, cur is the literal read so far,
\* acc the strings read
RECURSIVE JSONDecodeFrom(_, _, _, _, _)
JSONDecodeFrom(s, i, inString, cur, acc) ==
    IF i > Len(s) THEN acc
    ELSE IF ~inString
         THEN JSONDecodeFrom(s, i + 1, s[i] = "\"", <<>>, acc)
    ELSE IF s[i] = "\"" THEN JSONDecodeFrom(s, i + 1, FALSE, <<>>, Append(acc, cur))
    ELSE IF s[i] = "\\"
         THEN IF s[i + 1] = "u"
              THEN JSONDecodeFrom(s, i + 6, TRUE,
                                  Append(cur, UnicodeOf(SubSeq(s, i + 2, i + 5))), acc)
              ELSE JSONDecodeFrom(s, i + 2, TRUE, Append(cur, s[i + 1]), acc)
    ELSE JSONDecodeFrom(s, i + 1, TRUE, Append(cur, s[i]), acc)

\* encoding/json: json.Unmarshal of the text of an array of strings, what
\* the receiver of the command parameter applies
JSONUnmarshal(s) == JSONDecodeFrom(s, 1, FALSE, <<>>, <<>>)

\* characters net/url leaves alone in a query component
Unreserved ==
    {"a","b","c","d","e","f","g","h","i","j","k","l","m","n","o","p","q","r","s","t",
     "u","v","w","x","y","z","0","1","2","3","4","5","6","7","8","9","-","_",".","~"}

\* the two upper-case hex digits of the byte of a reserved character
HexOf(c) ==
    CASE c = "\"" -> <<"2","2">>
      [] c = "&" -> <<"2","6">>
      [] c = "," -> <<"2","C">>
      [] c = "/" -> <<"2","F">>
      [] c = ":" -> <<"3","A">>
      [] c = ";" -> <<"3","B">>
      [] c = "[" -> <<"5","B">>
      [] c = "\\" -> <<"5","C">>
      [] c = "]" -> <<"5","D">>

\* the reserved character of a pair of hex digits
CharOfHex(h) == CHOOSE c \in {"\"", "&", ",", "/", ":", ";", "[", "\\", "]"} : HexOf(c) = h

\* net/url: url.QueryEscape, as url.Values.Encode applies it to a value
QueryEscape(str) ==
    Flatten([i \in 1..Len(str) |->
              IF str[i] \in Unreserved THEN <<str[i]>>
              ELSE IF str[i] = " " THEN <<"+">>
              ELSE <<"%">> \o HexOf(str[i])])

\* net/url: url.QueryUnescape, what the receiver of the query applies
RECURSIVE QueryUnescape(_)
QueryUnescape(str) ==
    IF str = <<>> THEN <<>>
    ELSE IF Head(str) = "%" THEN <<CharOfHex(<<str[2], str[3]>>)>> \o QueryUnescape(SubSeq(str, 4, Len(str)))
    ELSE IF Head(str) = "+" THEN <<" ">> \o QueryUnescape(Tail(str))
    ELSE <<Head(str)>> \o QueryUnescape(Tail(str))


\* strconv: a non-negative int in decimal, as the %d verb prints it
RECURSIVE Itoa(_)
Itoa(n) ==
    LET d == <<"0","1","2","3","4","5","6","7","8","9">>[(n % 10) + 1]
    IN IF n < 10 THEN <<d>> ELSE Itoa(n \div 10) \o <<d>>

(***************************************************************************)
(* DebugOptions.Complete (cmd.go:140-210).                                 *)
(***************************************************************************)
\* the config Complete works with: what LoadFile returned, or Config{}
LoadedConfig(loadOk, file) == IF loadOk THEN file ELSE EmptyConfig

\* a Complete that substitutes the config file's command but forgets the
\* built-in default
CombineCommandNoDefault(argsCommand, config) ==
    IF Len(argsCommand) < 1 THEN config.Command ELSE argsCommand

\* cmd.go:175-182
CombineCommand(argsCommand, config) ==
    IF Len(argsCommand) < 1
    THEN IF Len(config.Command) > 0 THEN config.Command ELSE defaultCommand
    ELSE argsCommand

\* a Complete that prefers the config file's image to the command line's
CombineImageConfigFirst(image, config) ==
    IF Len(config.Image) > 0 THEN config.Image
    ELSE IF Len(image) < 1 THEN defaultImage ELSE image

\* cmd.go:183-189
CombineImage(image, config) ==
    IF Len(image) < 1
    THEN IF Len(config.Image) > 0 THEN config.Image ELSE defaultImage
    ELSE image

\* cmd.go:190-196
CombineAgentPort(port, config) ==
    IF port < 1
    THEN IF config.AgentPort > 0 THEN config.AgentPort ELSE defaultAgentPort
    ELSE port

\* where Complete can fail on its collaborators: "none", or the call that
\* returns an error
CompleteFailures == {"none", "namespace", "clientConfig", "newForConfig"}

\* Complete: the options it leaves behind and the error it returns
Complete(opts, args, config, fail) ==
    LET o1 == [opts EXCEPT !.Args = args]
        o2 == [o1 EXCEPT !.Namespace = "default"]
        o3 == [o2 EXCEPT !.PodName = args[1],
                         !.Command = CombineCommand(Tail(args), config),
                         !.Image = CombineImage(o2.Image, config),
                         !.AgentPort = CombineAgentPort(o2.AgentPort, config)]
        o4 == [o3 EXCEPT !.Config = TRUE]
        o5 == [o4 EXCEPT !.PodClient = TRUE]
    IN IF Len(args) = 0 THEN [o |-> o1, err |-> ErrPodNotSpecified]
       ELSE IF fail = "namespace" THEN [o |-> o1, err |-> ErrNamespace]
       ELSE IF fail = "clientConfig" THEN [o |-> o3, err |-> ErrClientConfig]
       ELSE IF fail = "newForConfig" THEN [o |-> o4, err |-> ErrNewForConfig]
       ELSE [o |-> o5, err |-> NoErr]

(***************************************************************************)
(* DebugOptions.Validate (cmd.go:212-220).                                 *)
(***************************************************************************)
Validate(opts) ==
    IF Len(opts.PodName) = 0 THEN ErrPodNameRequired
    ELSE IF Len(opts.Command) = 0 THEN ErrCommandRequired
    ELSE NoErr

(***************************************************************************)
(* Pieces of DebugOptions.Run (cmd.go:222-294).                            *)
(***************************************************************************)
\* a phase check that forgets the Failed phase
PodCompletedSucceededOnly(phase) == phase = "Succeeded"

\* cmd.go:231
PodCompleted(phase) == phase = "Succeeded" \/ phase = "Failed"

\* an advisory written for any pod that declares a container
NeedsAdvisoryAny(containers) == Len(containers) > 0

\* cmd.go:243: the advisory is written when more than one container is declared
NeedsAdvisory(containers) == Len(containers) > 1

\* a Run that drops the resolver's error
ResolveFailedNever(err) == FALSE

\* cmd.go:251: Run returns when the resolver returned an error
ResolveFailed(err) == err # NoErr

\* DebugOptions.getContainerIdByName (cmd.go:296-307): the loop from status i
RECURSIVE ContainerIdFrom(_, _, _)
ContainerIdFrom(statuses, i, containerName) ==
    IF i > Len(statuses) THEN [id |-> <<>>, err |-> ErrContainerNotFound]
    ELSE IF statuses[i].Name # containerName THEN ContainerIdFrom(statuses, i + 1, containerName)
    ELSE IF ~statuses[i].Ready THEN [id |-> <<>>, err |-> ErrContainerNotReady]
    ELSE [id |-> statuses[i].ContainerID, err |-> NoErr]

\* a resolver that does not look at the ready flag
RECURSIVE ContainerIdIgnoringReadyFrom(_, _, _)
ContainerIdIgnoringReadyFrom(statuses, i, containerName) ==
    IF i > Len(statuses) THEN [id |-> <<>>, err |-> ErrContainerNotFound]
    ELSE IF statuses[i].Name # containerName
         THEN ContainerIdIgnoringReadyFrom(statuses, i + 1, containerName)
    ELSE [id |-> statuses[i].ContainerID, err |-> NoErr]

getContainerIdIgnoringReady(p, containerName) ==
    ContainerIdIgnoringReadyFrom(p.ContainerStatuses, 1, containerName)

getContainerIdByName(p, containerName) == ContainerIdFrom(p.ContainerStatuses, 1, containerName)

\* a url.Parse that accepts every host
UrlParseAlwaysOk(hostIP) == TRUE

\* net/url: url.Parse of "http://<hostIP>:<port>" fails on a space in the host
UrlParseOk(hostIP) == \A i \in 1..Len(hostIP) : hostIP[i] # " "

\* a request builder that strips the <runtime>:// scheme off the container id
EncodedParamsBareId(image, containerId, command) ==
    << <<"command", QueryEscape(JSONMarshal(command))>>,
       <<"container", QueryEscape(SubSeq(containerId, 5, Len(containerId)))>>,
       <<"image", QueryEscape(image)>> >>

\* cmd.go:275-283: url.Values after the three Add calls, encoded by Encode,
\* which sorts by key: the pairs of key and escaped value
EncodedParams(image, containerId, command) ==
    << <<"command", QueryEscape(JSONMarshal(command))>>,
       <<"container", QueryEscape(containerId)>>,
       <<"image", QueryEscape(image)>> >>

\* cmd.go:270-283: the URL fn hands to remoteExecute
DebugURL(hostIP, port, image, containerId, command) ==
    [Scheme |-> "http",
     Host |-> hostIP \o <<":">> \o Itoa(port),
     Path |-> "/api/v1/debug",
     RawQuery |-> EncodedParams(image, containerId, command)]

(***************************************************************************)
(* DebugOptions.setupTTY (cmd.go:331-351) and term.TTY.                    *)
(***************************************************************************)
\* cmd.go:336: t.Raw as setupTTY returns it, given whether t.In is a terminal
SetupRaw(isTerminalIn) == TRUE

\* a Safe that leaves the terminal as fn left it
ModeAfterSafeNoRestore(isTerminalIn, saved, mode) == mode

\* term.TTY.Safe: the terminal mode once Safe has returned, given whether
\* t.In is a terminal, the state MakeRaw saved and the current mode
ModeAfterSafe(isTerminalIn, saved, mode) == IF isTerminalIn THEN saved ELSE mode

\* term.TTY.Safe: the resize monitor is stopped on the way out when t.In is a
\* terminal and MonitorSize created a size queue
MonitorAfterSafe(isTerminalIn, hasQueue, running) ==
    IF isTerminalIn /\ hasQueue THEN FALSE ELSE running


(***************************************************************************)
(* State.                                                                  *)
(***************************************************************************)
VARIABLES
    o,            \* the DebugOptions of the command (cmd.go:50-70)
    config,       \* Complete's config (cmd.go:168-172) while Complete runs
    pc,           \* where the command's Run handler is (cmd.go:110-122)
    completeErr,  \* what Complete returned, "pending" before it has
    validateErr,  \* what Validate returned, "pending" before it has
    runErr,       \* what Run returned, "pending" before, "panic" if aborted
    pod,          \* Run's pod
    res,          \* Run's containerName, containerId and resolver error
    t,            \* Run's term.TTY: Raw, and whether it holds a size queue
    tty,          \* the terminal: stdin/stdout are terminals, its mode, the state
                  \* MakeRaw saved, and the mode it had when Run was entered
    monitor,      \* MonitorSize calls made, resize goroutine running
    errOut,       \* what was written to standard error (o.ErrOut, the log package)
    printed,      \* the errors the handler printed
    lookups,      \* PodClient Get calls made
    builds,       \* times fn started to build the request
    execCalls,    \* the calls of remoteExecute: url, stderr, tty, size queue
    exitCode      \* the process's exit code, -1 while it runs

vars ==
    <<o, config, pc, completeErr, validateErr, runErr, pod, res, t, tty, monitor, errOut,
      printed, lookups, builds, execCalls, exitCode>>

Modes == {"cooked", "raw"}

\* NewDebugCmd (cmd.go:100-137) and cobra's flag parsing: the options hold
\* the flag values, everything else is zero; the streams are the process's
Init ==
    /\ o \in { [Args |-> <<>>, Namespace |-> "", PodName |-> <<>>, Image |-> img,
                ContainerName |-> cn, Command |-> <<>>, AgentPort |-> port,
                PodClient |-> FALSE, Config |-> FALSE, ErrOut |-> TRUE] :
               img \in ImageFlags, cn \in ContainerFlags, port \in PortFlags }
    /\ config = EmptyConfig
    /\ pc = "Complete"
    /\ completeErr = "pending"
    /\ validateErr = "pending"
    /\ runErr = "pending"
    /\ pod = NoPod
    /\ res = [called |-> FALSE, name |-> "", id |-> <<>>, err |-> NoErr]
    /\ t = [Raw |-> FALSE, sizeQueue |-> FALSE]
    /\ tty \in [stdin : BOOLEAN, stdout : BOOLEAN, mode : Modes, saved : {"none"},
               before : {"none"}]
    /\ monitor = [calls |-> 0, running |-> FALSE]
    /\ errOut = <<>>
    /\ printed = <<>>
    /\ lookups = 0
    /\ builds = 0
    /\ execCalls = <<>>
    /\ exitCode = -1

\* fmt.Println(err) of the handler, when err is not nil
Report(log, err) == IF err # NoErr THEN Append(log, err) ELSE log

(***************************************************************************)
(* The handler (cmd.go:110-122).                                           *)
(***************************************************************************)
\* the collaborators Complete can fail on before it loads the config file,
\* and after it has combined the values
EarlyFailures == {"none", "namespace"}
LateFailures == CompleteFailures \ {"namespace"}

\* cmd.go:112-113, 143-172: Complete is called with one of the argument
\* lists.  It returns at once on no argument or a namespace error, and the
\* handler prints the error; otherwise it sets the pod name and loads the
\* config file; a file that fails to load is logged and replaced by Config{}.
CompleteLoads(argLists) ==
    /\ pc = "Complete"
    /\ \E args \in argLists, file \in Configs, loadOk \in BOOLEAN, fail \in EarlyFailures :
         IF Len(args) = 0 \/ fail # "none"
         THEN LET r == Complete(o, args, EmptyConfig, fail)
              IN /\ o' = r.o
                 /\ completeErr' = r.err
                 /\ printed' = Report(printed, r.err)
                 /\ config' = config
                 /\ errOut' = errOut
                 /\ pc' = "Validate"
         ELSE /\ o' = [o EXCEPT !.Args = args, !.Namespace = "default", !.PodName = args[1]]
              /\ config' = LoadedConfig(loadOk, file)
              /\ errOut' = IF loadOk THEN errOut ELSE Append(errOut, "error loading file")
              /\ pc' = "Combine"
              /\ UNCHANGED <<completeErr, printed>>
    /\ UNCHANGED <<validateErr, runErr, pod, res, t, tty, monitor, lookups,
                   builds, execCalls, exitCode>>

CmdCompleteLoad == CompleteLoads(ArgLists)

\* cmd.go:113-115, 174-209: Complete combines the command line, the config
\* file and the defaults, builds the client, and returns; the handler
\* prints its error
CmdCompleteCombine ==
    /\ pc = "Combine"
    /\ \E fail \in LateFailures :
         LET r == Complete(o, o.Args, config, fail)
         IN /\ o' = r.o
            /\ completeErr' = r.err
            /\ printed' = Report(printed, r.err)
    /\ config' = EmptyConfig
    /\ pc' = "Validate"
    /\ UNCHANGED <<validateErr, runErr, pod, res, t, tty, monitor, errOut, lookups,
                   builds, execCalls, exitCode>>

\* cmd.go:116-118: Validate is called, its error printed
CmdValidate ==
    /\ pc = "Validate"
    /\ validateErr' = Validate(o)
    /\ printed' = Report(printed, Validate(o))
    /\ pc' = "Run"
    /\ UNCHANGED <<config, o, completeErr, runErr, pod, res, t, tty, monitor, errOut, lookups,
                   builds, execCalls, exitCode>>

\* cmd.go:119: Run is called with no PodClient: o.PodClient.Pods is a call
\* on a nil interface, the process aborts
RunNilClient ==
    /\ pc = "Run"
    /\ tty' = [tty EXCEPT !.before = tty.mode]
    /\ ~o.PodClient
    /\ runErr' = "panic"
    /\ exitCode' = 2
    /\ pc' = "Exited"
    /\ UNCHANGED <<config, o, completeErr, validateErr, pod, res, t, monitor, errOut,
                   printed, lookups, builds, execCalls>>

\* cmd.go:226-230: the Get fails (always so for an empty pod name)
RunGetError ==
    /\ pc = "Run"
    /\ tty' = [tty EXCEPT !.before = tty.mode]
    /\ o.PodClient
    /\ lookups' = lookups + 1
    /\ runErr' = ErrPodGet
    /\ pc' = "Report"
    /\ UNCHANGED <<config, o, completeErr, validateErr, pod, res, t, monitor, errOut,
                   printed, builds, execCalls, exitCode>>

\* cmd.go:226: the Get returns one of the pods
GetReturns(pods) ==
    /\ pc = "Run"
    /\ tty' = [tty EXCEPT !.before = tty.mode]
    /\ o.PodClient
    /\ Len(o.PodName) > 0
    /\ lookups' = lookups + 1
    /\ pod' \in pods
    /\ pc' = "Resolve"
    /\ UNCHANGED <<config, o, completeErr, validateErr, runErr, res, t, monitor, errOut,
                   printed, builds, execCalls, exitCode>>

RunGetPod == GetReturns(Pods)


\* cmd.go:231-233: the pod has completed
RunCompleted ==
    /\ pc = "Resolve"
    /\ PodCompleted(pod.Phase)
    /\ runErr' = ErrPodCompleted
    /\ pc' = "Report"
    /\ UNCHANGED <<config, o, completeErr, validateErr, pod, res, t, tty, monitor, errOut,
                   printed, lookups, builds, execCalls, exitCode>>

\* cmd.go:247: no container name was requested and the pod declares none:
\* pod.Spec.Containers[0] is out of range, the process aborts
RunNoContainers ==
    /\ pc = "Resolve"
    /\ ~PodCompleted(pod.Phase)
    /\ Len(o.ContainerName) = 0
    /\ Len(pod.Containers) = 0
    /\ runErr' = "panic"
    /\ exitCode' = 2
    /\ pc' = "Exited"
    /\ UNCHANGED <<config, o, completeErr, validateErr, pod, res, t, tty, monitor, errOut,
                   printed, lookups, builds, execCalls>>

\* cmd.go:241-248: the container name Run resolves
ContainerNameOf(opts, p) ==
    IF Len(opts.ContainerName) = 0 THEN p.Containers[1] ELSE opts.ContainerName

\* cmd.go:241-253: the container name is chosen, the advisory written, the
\* container id looked up in the statuses
RunResolve ==
    /\ pc = "Resolve"
    /\ ~PodCompleted(pod.Phase)
    /\ Len(o.ContainerName) = 0 => Len(pod.Containers) > 0
    /\ LET containerName == ContainerNameOf(o, pod)
           r == getContainerIdByName(pod, containerName)
       IN /\ errOut' = IF Len(o.ContainerName) = 0 /\ NeedsAdvisory(pod.Containers)
                       THEN Append(errOut, "advisory") ELSE errOut
          /\ res' = [called |-> TRUE, name |-> containerName, id |-> r.id, err |-> r.err]
          /\ IF ResolveFailed(r.err)
             THEN runErr' = r.err /\ pc' = "Report"
             ELSE runErr' = runErr /\ pc' = "SetupTTY"
    /\ UNCHANGED <<config, o, completeErr, validateErr, pod, t, tty, monitor, printed, lookups,
                   builds, execCalls, exitCode>>

\* an ErrOut that is left set when the session is raw
ErrOutKept(raw, isSet) == isSet

\* cmd.go:259-265: whether o.ErrOut is still set after the t.Raw branch
ErrOutAfterSetup(raw, isSet) == IF raw THEN FALSE ELSE isSet

\* cmd.go:257-265: setupTTY, then MonitorSize and the unsetting of o.ErrOut
\* when t.Raw.  MonitorSize starts its goroutine, and keeps a size queue in
\* t, only when t.Out is a terminal.
RunSetupTTY ==
    /\ pc = "SetupTTY"
    /\ LET raw == SetupRaw(tty.stdin)
           warned == IF ~tty.stdin /\ o.ErrOut THEN Append(errOut, "notty") ELSE errOut
       IN /\ errOut' = warned
          /\ t' = [Raw |-> raw, sizeQueue |-> raw /\ tty.stdout]
          /\ monitor' = IF raw
                        THEN [calls |-> monitor.calls + 1,
                              running |-> monitor.running \/ tty.stdout]
                        ELSE monitor
          /\ o' = [o EXCEPT !.ErrOut = ErrOutAfterSetup(raw, o.ErrOut)]
    /\ pc' = "Safe"
    /\ UNCHANGED <<config, completeErr, validateErr, runErr, pod, res, tty, printed, lookups,
                   builds, execCalls, exitCode>>

\* term.TTY.Safe, t.In a terminal and raw wanted: MakeRaw fails and Safe
\* returns its error without calling fn (cmd.go:288-291)
RunMakeRawError ==
    /\ pc = "Safe"
    /\ tty.stdin /\ t.Raw
    /\ runErr' = ErrMakeRaw
    /\ pc' = "Report"
    /\ UNCHANGED <<config, o, completeErr, validateErr, pod, res, t, tty, monitor, errOut,
                   printed, lookups, builds, execCalls, exitCode>>

\* the terminal while fn runs under Safe: made raw, its state saved, when
\* t.In is a terminal and t.Raw
TerminalInSafe(term, raw) ==
    IF term.stdin /\ raw THEN [term EXCEPT !.saved = term.mode, !.mode = "raw"]
    ELSE IF term.stdin THEN [term EXCEPT !.saved = term.mode]
    ELSE term

\* the terminal and the monitor once Safe has returned
TerminalAfterSafe(term) ==
    [term EXCEPT !.mode = ModeAfterSafe(term.stdin, term.saved, term.mode)]

\* cmd.go:288, 270-273: Safe calls fn, url.Parse fails, fn returns the
\* error, Safe restores the terminal and Run returns the error
RunParseError ==
    /\ pc = "Safe"
    /\ ~UrlParseOk(pod.HostIP)
    /\ builds' = builds + 1
    /\ tty' = TerminalAfterSafe(TerminalInSafe(tty, t.Raw))
    /\ monitor' = [monitor EXCEPT
                     !.running = MonitorAfterSafe(tty.stdin, t.sizeQueue, monitor.running)]
    /\ runErr' = ErrUrlParse
    /\ pc' = "Report"
    /\ UNCHANGED <<config, o, completeErr, validateErr, pod, res, t, errOut, printed, lookups,
                   execCalls, exitCode>>

\* cmd.go:288, 267-285: Safe makes the terminal raw when t.In is one, fn
\* builds the request and calls remoteExecute, which blocks on the stream
RunExecute ==
    /\ pc = "Safe"
    /\ UrlParseOk(pod.HostIP)
    /\ builds' = builds + 1
    /\ tty' = TerminalInSafe(tty, t.Raw)
    /\ execCalls' = Append(execCalls,
                           [url |-> DebugURL(pod.HostIP, o.AgentPort, o.Image, res.id, o.Command),
                            stderr |-> o.ErrOut,
                            tty |-> t.Raw,
                            sizeQueue |-> t.sizeQueue])
    /\ pc' = "Stream"
    /\ UNCHANGED <<config, o, completeErr, validateErr, runErr, pod, res, t, monitor, errOut,
                   printed, lookups, exitCode>>

\* what remoteExecute can return (cmd.go:318-328): nil when the remote end
\* closed the stream, the executor's error, a stream error
StreamOutcomes == {NoErr, ErrNewExecutor, ErrStream}

\* a Run that calls fn again after a stream error
AfterStreamRetry(err) == IF err = ErrStream THEN "Safe" ELSE "Report"

\* cmd.go:288-293: where Run goes once t.Safe(fn) has returned err: it
\* returns to the handler, whatever err is
AfterStream(err) == "Report"

\* cmd.go:285-293: remoteExecute returns, Safe restores the terminal and
\* stops the size queue, Run returns what remoteExecute returned
RunStreamEnds ==
    /\ pc = "Stream"
    /\ \E err \in StreamOutcomes : runErr' = err
    /\ tty' = TerminalAfterSafe(tty)
    /\ monitor' = [monitor EXCEPT
                     !.running = MonitorAfterSafe(tty.stdin, t.sizeQueue, monitor.running)]
    /\ pc' = AfterStream(runErr')
    /\ UNCHANGED <<config, o, completeErr, validateErr, pod, res, t, errOut, printed, lookups,
                   builds, execCalls, exitCode>>

\* the exit code of the process once the handler has returned: the handler
\* has no return value and ends no process, so cobra reports success
HandlerExitCode(err) == 0

\* cmd.go:119-122: Run has returned, its error is printed, the handler returns
CmdReport ==
    /\ pc = "Report"
    /\ printed' = Report(printed, runErr)
    /\ exitCode' = HandlerExitCode(runErr)
    /\ pc' = "Exited"
    /\ UNCHANGED <<config, o, completeErr, validateErr, runErr, pod, res, t, tty, monitor, errOut,
                   lookups, builds, execCalls>>

Next ==
    \/ CmdCompleteLoad
    \/ CmdCompleteCombine
    \/ CmdValidate
    \/ RunNilClient
    \/ RunGetError
    \/ RunGetPod
    \/ RunCompleted
    \/ RunNoContainers
    \/ RunResolve
    \/ RunSetupTTY
    \/ RunMakeRawError
    \/ RunParseError
    \/ RunExecute
    \/ RunStreamEnds
    \/ CmdReport

Spec == Init /\ [][Next]_vars

(***************************************************************************)
(* The same handler over more command lines and fewer pods.                *)
(***************************************************************************)
CmdCompleteLoadWide == CompleteLoads(WideArgLists)

RunGetFewPods == GetReturns(FewPods)

NextWide ==
    \/ CmdCompleteLoadWide
    \/ CmdCompleteCombine
    \/ CmdValidate
    \/ RunNilClient
    \/ RunGetError
    \/ RunGetFewPods
    \/ RunCompleted
    \/ RunNoContainers
    \/ RunResolve
    \/ RunSetupTTY
    \/ RunMakeRawError
    \/ RunParseError
    \/ RunExecute
    \/ RunStreamEnds
    \/ CmdReport

SpecWide == Init /\ [][NextWide]_vars


(***************************************************************************)
(* Properties.                                                             *)
(***************************************************************************)
\* Run has been entered by the handler
RunEntered == pc \notin {"Complete", "Combine", "Validate", "Run"}
\* Run has returned a value (it did not abort and is not still running)
RunReturned == runErr \notin {"pending", "panic"}
\* the number of advisory notices written to ErrOut
Advisories == Cardinality({ i \in 1..Len(errOut) : errOut[i] = "advisory" })
\* the errors the resolving steps of Run return
ResolverErrors == {ErrPodGet, ErrPodCompleted, ErrContainerNotFound, ErrContainerNotReady}
\* the value of the parameter key in an encoded query, unescaped
ParamsOf(query, key) ==
    [i \in 1..Cardinality({ j \in 1..Len(query) : query[j][1] = key }) |->
        QueryUnescape(query[CHOOSE j \in 1..Len(query) :
                              /\ query[j][1] = key
                              /\ Cardinality({ k \in 1..j : query[k][1] = key }) = i][2])]

\* C1: for a pod whose phase is Succeeded or Failed, Run returns the
\* PodNotDebuggable error whatever the requested container and the statuses
\* are, and it builds no request, sets up no terminal and never calls
\* remoteExecute.
C1_CompletedPodNotDebuggable ==
    (pod # NoPod /\ pod.Phase \in {"Succeeded", "Failed"}) =>
        /\ runErr \in {"pending", ErrPodCompleted}
        /\ pc \in {"Resolve", "Report", "Exited"}
        /\ pc \in {"Report", "Exited"} => runErr = ErrPodCompleted
        /\ builds = 0
        /\ t = [Raw |-> FALSE, sizeQueue |-> FALSE]
        /\ monitor.calls = 0
        /\ execCalls = <<>>

C1_Witness ==
    /\ pc = "Exited"
    /\ pod.Phase = "Failed"
    /\ runErr = ErrPodCompleted
    /\ o.ContainerName = "web"
    /\ Len(pod.ContainerStatuses) = 2

\* C2: a resolver error (pod lookup, completed pod, container not found,
\* container not ready) is what Run returns, and remoteExecute is called
\* only after getContainerIdByName returned a container id without error.
C2_NoAgentContactOnResolverError ==
    /\ Len(execCalls) > 0 => (res.called /\ res.err = NoErr)
    /\ builds > 0 => (res.called /\ res.err = NoErr)
    /\ (res.called /\ res.err # NoErr) =>
           (pc \in {"Report", "Exited"} /\ runErr = res.err)
    /\ runErr \in ResolverErrors => (execCalls = <<>> /\ builds = 0)

C2_Witness ==
    /\ pc = "Exited"
    /\ res.called
    /\ runErr = ErrContainerNotReady
    /\ execCalls = <<>>

\* C3: when Complete or Validate has reported an error, Run is not entered:
\* no pod lookup is made and remoteExecute is not called.
C3_UsageErrorStopsBeforeRun ==
    (completeErr \notin {"pending", NoErr} \/ validateErr \notin {"pending", NoErr}) =>
        (~RunEntered /\ lookups = 0 /\ execCalls = <<>>)

\* C4: when the local input is not a terminal, remoteExecute gets tty =
\* false and the non-nil ErrOut stream, and MonitorSize is not called; when
\* it is a terminal, remoteExecute gets tty = true.
C4_CookedWhenNotInteractive ==
    \A i \in 1..Len(execCalls) :
        IF tty.stdin
        THEN execCalls[i].tty
        ELSE ~execCalls[i].tty /\ execCalls[i].stderr /\ monitor.calls = 0

\* C5: once Run has returned, on any exit path, the terminal mode is the
\* mode the terminal had when Run was entered.
C5_TerminalModeRestored ==
    RunReturned => tty.mode = tty.before

C5_Witness ==
    /\ pc = "Exited"
    /\ runErr = ErrStream
    /\ tty.stdin
    /\ tty.before = "cooked"
    /\ tty.saved = "cooked"
    /\ Len(execCalls) = 1

\* C6: every failure of an invocation is printed and gives a non-zero exit
\* code; the exit code is 0 only when the session closed without error.
C6_FailureExitsNonZero ==
    pc = "Exited" =>
        (exitCode = 0 <=> (completeErr = NoErr /\ validateErr = NoErr /\ runErr = NoErr))

\* C7: with no container name requested, the container Run resolves is the
\* first declared one; the advisory is written exactly once when the pod
\* declares more than one container, and never when it declares one or a
\* name was requested; the advisory does not change what Run does next.
C7_DefaultContainerAndAdvisory ==
    /\ ~res.called => Advisories = 0
    /\ res.called =>
         /\ Len(o.ContainerName) = 0 => res.name = pod.Containers[1]
         /\ Len(o.ContainerName) # 0 => res.name = o.ContainerName
         /\ Advisories =
              (IF Len(o.ContainerName) = 0 /\ Len(pod.Containers) > 1 THEN 1 ELSE 0)
         /\ (res.err = NoErr /\ pc \in {"Report", "Exited"}) =>
                (builds = 1 \/ runErr = ErrMakeRaw)

C7_Witness ==
    /\ pc = "Exited"
    /\ Len(o.ContainerName) = 0
    /\ pod.Containers = <<"sidecar", "web">>
    /\ res.name = "sidecar"
    /\ Advisories = 1
    /\ runErr = NoErr

\* C8: getContainerIdByName, names unique in the statuses: not ready gives
\* ContainerNotReady, no status of that name gives ContainerNotFound, a
\* ready status gives exactly that status's containerID.
C8_ContainerIdByName ==
    res.called =>
        LET st == pod.ContainerStatuses
            named == { i \in 1..Len(st) : st[i].Name = res.name }
        IN /\ named = {} => (res.err = ErrContainerNotFound /\ res.id = <<>>)
           /\ \A i \in named :
                /\ ~st[i].Ready => (res.err = ErrContainerNotReady /\ res.id = <<>>)
                /\ st[i].Ready => (res.err = NoErr /\ res.id = st[i].ContainerID)

C8_Witness ==
    /\ res.called
    /\ res.err = ErrContainerNotReady
    /\ Len(pod.ContainerStatuses) = 2
    /\ pod.ContainerStatuses[2].Name = res.name
    /\ pod.ContainerStatuses[1].Ready

\* C9: whenever Run builds a request, Command is not empty, also when
\* Complete or Validate returned an error.
C9_CommandNeverEmptyAtBuild ==
    /\ builds > 0 => Len(o.Command) > 0
    /\ \A i \in 1..Len(execCalls) :
         ParamsOf(execCalls[i].url.RawQuery, "command") # << <<"[", "]">> >>

C9_Witness ==
    /\ builds > 0
    /\ Len(o.Args) = 1
    /\ o.Command = defaultCommand
    /\ Len(execCalls) = 1

\* C10: the request handed to remoteExecute has the path /api/v1/debug, the
\* host pod.Status.HostIP, the port AgentPort, and exactly the parameters
\* image = the configured image, container = the resolved status's
\* containerID unchanged, command = the JSON array of Command.
C10_RequestShape ==
    \A i \in 1..Len(execCalls) :
        LET u == execCalls[i].url
            st == pod.ContainerStatuses
            status == st[CHOOSE j \in 1..Len(st) : st[j].Name = res.name]
        IN /\ u.Scheme = "http"
           /\ u.Path = "/api/v1/debug"
           /\ u.Host = pod.HostIP \o <<":">> \o Itoa(o.AgentPort)
           /\ { u.RawQuery[j][1] : j \in 1..Len(u.RawQuery) } = {"image", "container", "command"}
           /\ Len(u.RawQuery) = 3
           /\ ParamsOf(u.RawQuery, "image") = <<o.Image>>
           /\ ParamsOf(u.RawQuery, "container") = <<status.ContainerID>>
           /\ ParamsOf(u.RawQuery, "command") = <<JSONMarshal(o.Command)>>

C10_Witness ==
    /\ Len(execCalls) = 1
    /\ o.Image = defaultImage
    /\ o.AgentPort = defaultAgentPort
    /\ Len(o.Command) = 2
    /\ res.id = <<"d", ":", "/", "/", "2">>


\* the command a receiver decodes from the command parameter of a call
DecodedCommand(call) == JSONUnmarshal(ParamsOf(call.url.RawQuery, "command")[1])

\* C11: decoding the JSON value placed in the command parameter yields the
\* original Command element for element, in the same order and with the
\* same length.
C11_CommandRoundTrip ==
    \A i \in 1..Len(execCalls) : DecodedCommand(execCalls[i]) = o.Command


\* C13: in every call Run makes to remoteExecute, the error stream is nil
\* exactly when the tty flag is true, and a terminal-size queue is passed
\* only when the tty flag is true.
C13_StreamsFollowTty ==
    \A i \in 1..Len(execCalls) :
        /\ ~execCalls[i].stderr <=> execCalls[i].tty
        /\ execCalls[i].sizeQueue => execCalls[i].tty

C13_Witness ==
    /\ Len(execCalls) = 1
    /\ execCalls[1].tty
    /\ ~execCalls[1].stderr
    /\ execCalls[1].sizeQueue

\* C14: once Run has returned, the task started by MonitorSize is no longer
\* running.
C14_ResizeTaskCancelled == RunReturned => ~monitor.running

\* the error the resolution of the container res.name in the pod's statuses
\* gives: the first status of that name decides
ResolutionError ==
    LET S == pod.ContainerStatuses
        named == { i \in 1..Len(S) : S[i].Name = res.name }
    IN IF named = {} THEN ErrContainerNotFound
       ELSE LET first == CHOOSE i \in named : \A j \in named : i <= j
            IN IF S[first].Ready THEN NoErr ELSE ErrContainerNotReady

\* the steps of Run, in the order of the claim; 0 before Run, 7 after it
StepRank ==
    CASE pc \in {"Complete", "Combine", "Validate"} -> 0
      [] pc = "Run" -> 1
      [] pc = "Resolve" -> 2
      [] pc = "SetupTTY" -> 4
      [] pc = "Safe" -> 5
      [] pc = "Stream" -> 6
      [] pc \in {"Report", "Exited"} -> 7

\* what Run has returned is the error of the first step that failed, and
\* nil when none did
C15_ReturnsFirstFailure ==
    RunReturned =>
        /\ lookups = 1
        /\ IF pod = NoPod THEN runErr = ErrPodGet
           ELSE IF pod.Phase \in {"Succeeded", "Failed"} THEN runErr = ErrPodCompleted
           ELSE IF ResolutionError # NoErr THEN runErr = ResolutionError
           ELSE IF builds = 0 THEN runErr = ErrMakeRaw
           ELSE IF pod.HostIP = HostBad THEN runErr = ErrUrlParse /\ execCalls = <<>>
           ELSE Len(execCalls) = 1 /\ runErr \in StreamOutcomes
        /\ runErr = NoErr =>
             /\ pod # NoPod
             /\ pod.Phase \notin {"Succeeded", "Failed"}
             /\ res.called /\ ResolutionError = NoErr
             /\ builds = 1 /\ pod.HostIP # HostBad
             /\ Len(execCalls) = 1

\* a step of Run has acted only after the steps before it
C15_StepsInOrder ==
    /\ res.called => lookups = 1 /\ pod # NoPod /\ pod.Phase \notin {"Succeeded", "Failed"}
    /\ monitor.calls > 0 => res.called /\ ResolutionError = NoErr
    /\ builds > 0 => monitor.calls > 0
    /\ Len(execCalls) > 0 => builds > 0 /\ pod.HostIP # HostBad

\* C15: Run returns nil exactly when the lookup, the phase check, the
\* resolution and the request building succeeded and the transport returned
\* without error; otherwise it returns the error of the first step that
\* failed; the steps are taken only in the order lookup, phase check,
\* resolution, terminal setup, request building, streaming.
C15_RunStateMachine ==
    /\ [](C15_ReturnsFirstFailure /\ C15_StepsInOrder)
    /\ [][StepRank' > StepRank \/ pc = "Report" \/ pc \in {"Complete", "Combine"}]_vars

C15_Witness ==
    /\ pc = "Exited"
    /\ runErr = ErrUrlParse
    /\ res.called /\ res.err = NoErr
    /\ monitor.calls = 1
    /\ builds = 1

\* C16: in one call of Run the pod status is looked up at most once and
\* remoteExecute is called at most once; after remoteExecute has returned an
\* error Run has returned with that one call made.
C16_NoRetries ==
    /\ lookups <= 1
    /\ builds <= 1
    /\ Len(execCalls) <= 1
    /\ runErr \in {ErrStream, ErrNewExecutor} => pc \in {"Report", "Exited"}

C16_Witness ==
    /\ pc = "Exited"
    /\ runErr = ErrStream
    /\ lookups = 1
    /\ Len(execCalls) = 1

\* C17: Run always ends by returning nil or an error value, never by
\* aborting.
C17_RunNeverAborts == runErr # "panic"

\* the value of highest precedence: the command line's when it is given,
\* else the config file's when it is given, else the default
Precedence(flagGiven, flag, configGiven, fromConfig, default) ==
    IF flagGiven THEN flag ELSE IF configGiven THEN fromConfig ELSE default

\* C18: after Complete returns without error, each of Command, Image and
\* AgentPort holds the value of highest precedence among the command line,
\* the config file and the built-in default; a config file that fails to
\* load is treated as an empty config and is not an error.
C18_OptionPrecedence ==
    [][/\ (pc = "Combine" /\ completeErr' = NoErr) =>
            /\ o'.Command = Precedence(Len(o.Args) >= 2, Tail(o.Args),
                                       config.Command # <<>>, config.Command,
                                       << <<"b", "a", "s", "h">> >>)
            /\ o'.Image = Precedence(o.Image # <<>>, o.Image,
                                     config.Image # <<>>, config.Image, defaultImage)
            /\ o'.AgentPort = Precedence(o.AgentPort >= 1, o.AgentPort,
                                         config.AgentPort > 0, config.AgentPort, 10027)
       /\ (pc = "Complete" /\ errOut' # errOut) =>
            /\ config' = [Command |-> <<>>, Image |-> <<>>, AgentPort |-> 0]
            /\ pc' = "Combine"
            /\ completeErr' = completeErr /\ printed' = printed
      ]_vars

C18_Witness ==
    /\ pc = "Validate"
    /\ completeErr = NoErr
    /\ o.Command = << <<"b", "a", "s", "h">> >>
    /\ o.Image = <<"c", "f", "g">>
    /\ o.AgentPort = 10027
    /\ errOut = <<>>

====
